---- MODULE Spec2Model ----
(***************************************************************************)
(* SHA-256 reference implementation (sha256_reference.py), modelled as a   *)
(* state machine: each call of sha256 owns a frame of locals (data, msg,   *)
(* w, h, the working variables a..h_val, temp1, temp2) and advances        *)
(* through padding, block iteration, schedule extension, the 64 rounds and *)
(* the accumulation, and returns the hex digest.                           *)
(*                                                                         *)
(* Python integers are unbounded; they are represented exactly, by sign    *)
(* and set of bit positions.  The masks (& 0xffffffff) of the source are   *)
(* modelled as the bitwise AND they are, so that the 32-bit range of a     *)
(* stored value is a consequence of the code and not of the                *)
(* representation.                                                         *)
(***************************************************************************)
EXTENDS Integers, Sequences, FiniteSets, TLC

\* one frame of _sha256 per thread, indexed by the thread: pc is the position
\* of the call in the body, wk the working variables a..h_val
VARIABLES pc, K, data, msg_len, msg, chunk_start, chunk, w, h, wk, temp1, temp2,
          i,       \* the index of the next iteration of the loop of the rounds
          result,
          calls,   \* number of calls of sha256 made so far
          seen     \* every <<input bytes, returned digest>> so far

vars == <<pc, K, data, msg_len, msg, chunk_start, chunk, w, h, wk, temp1, temp2,
          i, result, calls, seen>>

\* ---------------------------------------------------------------- bounds
MaxCalls == 2      \* calls of sha256 made in one behaviour
MaxPadLen == 130   \* longest input of the padding specification, in bytes
LongSpan == 70     \* the long inputs have 2^61 - LongSpan .. 2^61 + LongSpan bytes

Threads == {1, 2}

\* ------------------------------------------------------- Python integers
\* A Python int is [neg, bits]: with S the sum of 2^k over k in bits, its
\* value is S when neg is FALSE and -(S + 1), that is ~S, when neg is TRUE.
\* (In two's complement of unbounded width: bits is the set of positions
\* holding 1 for a value >= 0, and the positions holding 0 for a value < 0.)

\* the set S itself, with its members computed once
Enum(S) == {k : k \in S}

\* a small integer n (0 <= n < 2^31) as a Python int
PyInt(n) == [neg |-> FALSE, bits |-> Enum({k \in 0..30 : (n \div 2^k) % 2 = 1})]

\* bit k of x in two's complement: TRUE for 1
Bit(x, k) == (k \in x.bits) # x.neg

\* ~x
Not(x) == [neg |-> ~x.neg, bits |-> x.bits]

\* x & y
And(x, y) ==
    IF x.neg
    THEN IF y.neg THEN [neg |-> TRUE, bits |-> Enum(x.bits \cup y.bits)]
                  ELSE [neg |-> FALSE, bits |-> Enum(y.bits \ x.bits)]
    ELSE IF y.neg THEN [neg |-> FALSE, bits |-> Enum(x.bits \ y.bits)]
                  ELSE [neg |-> FALSE, bits |-> Enum(x.bits \cap y.bits)]

\* x | y
Or(x, y) == Not(And(Not(x), Not(y)))

\* x ^ y
Xor(x, y) ==
    [neg |-> x.neg # y.neg,
     bits |-> Enum((x.bits \ y.bits) \cup (y.bits \ x.bits))]

\* x << b
Shl(x, b) ==
    [neg |-> x.neg,
     bits |-> Enum({k + b : k \in x.bits} \cup {k \in 0..(b - 1) : x.neg})]

\* x >> b (floor division by 2^b)
Shr(x, b) == [neg |-> x.neg, bits |-> {k - b : k \in {m \in x.bits : m >= b}}]

\* bit k of x in two's complement, as 0 or 1
BitAt(x, k) == IF Bit(x, k) THEN 1 ELSE 0

\* The carries of the addition x + y, as a Python int whose bit k is the
\* carry into position k.  g = x & y has a 1 where a carry is generated and
\* p = x ^ y where the carry coming in is passed on.  At position k the
\* ripple is at r: r.c is the carry into position k, r.ones the positions
\* below k with a carry of 1, r.left the number of members (the positions
\* where x or y differ from their sign) at or above k.  Above the last
\* member the bits of g and p are their sign bits, and the carry is the
\* same at every position above k.
RECURSIVE CarryFrom(_, _, _, _, _)
CarryFrom(g, p, members, k, r) ==
    IF r.left = 0
    THEN LET last == g.neg \/ (p.neg /\ r.c)
             upto == IF r.c THEN Append(r.ones, k) ELSE r.ones
         IN  [neg |-> last,
              bits |-> IF last THEN (0..k) \ {upto[m] : m \in 1..Len(upto)}
                               ELSE {upto[m] : m \in 1..Len(upto)}]
    ELSE CarryFrom(g, p, members, k + 1,
                   [c |-> Bit(g, k) \/ (Bit(p, k) /\ r.c),
                    left |-> IF k \in members THEN r.left - 1 ELSE r.left,
                    ones |-> IF r.c THEN Append(r.ones, k) ELSE r.ones])

\* x + y: each bit of the sum is the XOR of the two bits and the carry
Add(x, y) ==
    LET members == Enum(x.bits \cup y.bits)
    IN  Xor(Xor(x, y),
            CarryFrom(And(x, y), Xor(x, y), members, 0,
                      [c |-> FALSE, left |-> Cardinality(members), ones |-> <<>>]))

\* the literal 0xHHHHLLLL, written as its two 16-bit halves
U32(hi, lo) == Or(Shl(PyInt(hi), 16), PyInt(lo))

\* the literal 0xffffffff
Mask32 == [neg |-> FALSE, bits |-> 0..31]

\* a faulty rotation: the bits shifted out at the right are lost
ShiftOnly(n, b) == And(Shr(n, b), Mask32)

\* def _rightrotate(n, b)
_rightrotate(n, b) == And(Or(Shr(n, b), Shl(n, 32 - b)), Mask32)

\* ------------------------------------------------------------- constants
\* the list literal bound to K
RoundConstants == <<
    U32(\H428a, \H2f98), U32(\H7137, \H4491), U32(\Hb5c0, \Hfbcf), U32(\He9b5, \Hdba5),
    U32(\H3956, \Hc25b), U32(\H59f1, \H11f1), U32(\H923f, \H82a4), U32(\Hab1c, \H5ed5),
    U32(\Hd807, \Haa98), U32(\H1283, \H5b01), U32(\H2431, \H85be), U32(\H550c, \H7dc3),
    U32(\H72be, \H5d74), U32(\H80de, \Hb1fe), U32(\H9bdc, \H06a7), U32(\Hc19b, \Hf174),
    U32(\He49b, \H69c1), U32(\Hefbe, \H4786), U32(\H0fc1, \H9dc6), U32(\H240c, \Ha1cc),
    U32(\H2de9, \H2c6f), U32(\H4a74, \H84aa), U32(\H5cb0, \Ha9dc), U32(\H76f9, \H88da),
    U32(\H983e, \H5152), U32(\Ha831, \Hc66d), U32(\Hb003, \H27c8), U32(\Hbf59, \H7fc7),
    U32(\Hc6e0, \H0bf3), U32(\Hd5a7, \H9147), U32(\H06ca, \H6351), U32(\H1429, \H2967),
    U32(\H27b7, \H0a85), U32(\H2e1b, \H2138), U32(\H4d2c, \H6dfc), U32(\H5338, \H0d13),
    U32(\H650a, \H7354), U32(\H766a, \H0abb), U32(\H81c2, \Hc92e), U32(\H9272, \H2c85),
    U32(\Ha2bf, \He8a1), U32(\Ha81a, \H664b), U32(\Hc24b, \H8b70), U32(\Hc76c, \H51a3),
    U32(\Hd192, \He819), U32(\Hd699, \H0624), U32(\Hf40e, \H3585), U32(\H106a, \Ha070),
    U32(\H19a4, \Hc116), U32(\H1e37, \H6c08), U32(\H2748, \H774c), U32(\H34b0, \Hbcb5),
    U32(\H391c, \H0cb3), U32(\H4ed8, \Haa4a), U32(\H5b9c, \Hca4f), U32(\H682e, \H6ff3),
    U32(\H748f, \H82ee), U32(\H78a5, \H636f), U32(\H84c8, \H7814), U32(\H8cc7, \H0208),
    U32(\H90be, \Hfffa), U32(\Ha450, \H6ceb), U32(\Hbef9, \Ha3f7), U32(\Hc671, \H78f2) >>

\* the list literal bound to h
InitialHash == <<
    U32(\H6a09, \He667), U32(\Hbb67, \Hae85), U32(\H3c6e, \Hf372), U32(\Ha54f, \Hf53a),
    U32(\H510e, \H527f), U32(\H9b05, \H688c), U32(\H1f83, \Hd9ab), U32(\H5be0, \Hcd19) >>

\* ------------------------------------------------------- bytes and words
Min(x, y) == IF x <= y THEN x ELSE y

\* str.encode('utf-8') of a sequence of code points below 0x800
RECURSIVE Utf8Encode(_)
Utf8Encode(s) ==
    IF s = <<>> THEN <<>>
    ELSE LET cp == Head(s)
         IN  (IF cp < 128 THEN <<cp>>
              ELSE <<192 + (cp \div 64), 128 + (cp % 64)>>) \o Utf8Encode(Tail(s))

\* A bytes or bytearray object is [lead, bytes]: lead (a Python int) bytes
\* whose values are not written out, followed by the bytes of the sequence
\* bytes.  An input of at most a few hundred bytes has lead = 0; a lead of
\* about 2^61 stands for an input too long to be written out.
Explicit(v) == [lead |-> PyInt(0), bytes |-> v]
Long(n) == [lead |-> n, bytes |-> <<>>]

\* len(m)
PyLen(m) == Add(m.lead, PyInt(Len(m.bytes)))

\* m.append(b)
AppendByte(m, b) == [lead |-> m.lead, bytes |-> Append(m.bytes, b)]

\* x * 8 and x % 512 on Python ints: exact for every x, negative or not
Times8(x) == Shl(x, 3)
Mod512(x) == And(x, PyInt(511))

\* a faulty loop condition: pads up to a multiple of 512 bits, leaving no
\* room for the length field
NeedsZeroTo512(m) == Mod512(Times8(PyLen(m))) # PyInt(0)

\* a faulty loop condition: pads to 960 modulo 1024 bits, up to a block
\* more than needed
NeedsZeroTo1024(m) == And(Times8(PyLen(m)), PyInt(1023)) # PyInt(960)

\* the condition of the while loop of the padding: (len(m) * 8) % 512 != 448
NeedsZero(m) == Mod512(Times8(PyLen(m))) # PyInt(448)

\* a faulty range check: a length field that takes every n >= 0, keeping
\* its low 64 bits
FitsAlways(n) == ~n.neg

\* struct.pack('>Q', n) accepts 0 <= n < 2^64 and raises struct.error otherwise
FitsQ(n) == ~n.neg /\ n.bits \subseteq 0..63

\* a faulty length field, struct.pack('<Q', n): least significant byte first
PackLittleEndian(n) ==
    [k \in 1..8 |->
        LET sh == 8 * (k - 1)
        IN  BitAt(n, sh) + 2 * BitAt(n, sh + 1) + 4 * BitAt(n, sh + 2)
            + 8 * BitAt(n, sh + 3) + 16 * BitAt(n, sh + 4) + 32 * BitAt(n, sh + 5)
            + 64 * BitAt(n, sh + 6) + 128 * BitAt(n, sh + 7)]

\* struct.pack('>Q', n): eight bytes, most significant first
PackQ(n) ==
    [k \in 1..8 |->
        LET sh == 8 * (8 - k)
        IN  BitAt(n, sh) + 2 * BitAt(n, sh + 1) + 4 * BitAt(n, sh + 2)
            + 8 * BitAt(n, sh + 3) + 16 * BitAt(n, sh + 4) + 32 * BitAt(n, sh + 5)
            + 64 * BitAt(n, sh + 6) + 128 * BitAt(n, sh + 7)]

\* the Python slice m[lo:hi]
Slice(m, lo, hi) == SubSeq(m, lo + 1, Min(hi, Len(m)))

\* struct.unpack('>16I', chunk) of a 64-byte chunk
Unpack16I(c) ==
    [j \in 1..16 |-> U32(c[4*j - 3] * 256 + c[4*j - 2], c[4*j - 1] * 256 + c[4*j])]

\* the Python list element v[j] (0-based)
At(v, j) == v[j + 1]

\* ------------------------------------------------------ message schedule
\* the word appended by iteration i = j of the schedule loop
ScheduleWord(ws, j) ==
    LET s0 == Xor(Xor(_rightrotate(At(ws, j-15), 7), _rightrotate(At(ws, j-15), 18)),
                  Shr(At(ws, j-15), 3))
        s1 == Xor(Xor(_rightrotate(At(ws, j-2), 17), _rightrotate(At(ws, j-2), 19)),
                  Shr(At(ws, j-2), 10))
    IN  And(Add(Add(Add(At(ws, j-16), s0), At(ws, j-7)), s1), Mask32)

\* for i in range(16, 64): w.append(...), from a list of 16 words on:
\* iteration i finds len(w) = i
RECURSIVE ExtendFrom(_)
ExtendFrom(ws) ==
    IF Len(ws) >= 64 THEN ws ELSE ExtendFrom(Append(ws, ScheduleWord(ws, Len(ws))))

\* ----------------------------------------------------- compression round
Temp1(v, j, ws, ks) ==
    LET S1 == Xor(Xor(_rightrotate(v.e, 6), _rightrotate(v.e, 11)), _rightrotate(v.e, 25))
        ch == Xor(And(v.e, v.f), And(Not(v.e), v.g))
    IN  And(Add(Add(Add(Add(v.h_val, S1), ch), At(ks, j)), At(ws, j)), Mask32)

Temp2(v) ==
    LET S0  == Xor(Xor(_rightrotate(v.a, 2), _rightrotate(v.a, 13)), _rightrotate(v.a, 22))
        maj == Xor(Xor(And(v.a, v.b), And(v.a, v.c)), And(v.b, v.c))
    IN  And(Add(S0, maj), Mask32)

\* a faulty round: a = temp1 + temp2 without the mask
RoundStepUnmasked(v, t1, t2) ==
    [a |-> Add(t1, t2), b |-> v.a, c |-> v.b, d |-> v.c,
     e |-> And(Add(v.d, t1), Mask32), f |-> v.e, g |-> v.f, h_val |-> v.g]

\* one iteration of the main compression loop on the working variables
RoundStep(v, t1, t2) ==
    [a |-> And(Add(t1, t2), Mask32), b |-> v.a, c |-> v.b, d |-> v.c,
     e |-> And(Add(v.d, t1), Mask32), f |-> v.e, g |-> v.f, h_val |-> v.g]

\* a, b, c, d, e, f, g, h_val = h
Unpack8(hh) ==
    [a |-> hh[1], b |-> hh[2], c |-> hh[3], d |-> hh[4],
     e |-> hh[5], f |-> hh[6], g |-> hh[7], h_val |-> hh[8]]

\* the working variables in the order of the hash words they are added to
WorkSeq(v) == <<v.a, v.b, v.c, v.d, v.e, v.f, v.g, v.h_val>>

\* a faulty accumulation: h[j] = <j-th working variable>, the hash state of
\* before the block is dropped
Overwrite(hh, v) == [j \in 1..8 |-> WorkSeq(v)[j]]

\* h[j] = (h[j] + <j-th working variable>) & 0xffffffff, j = 0..7
AddCompressed(hh, v) ==
    [j \in 1..8 |-> And(Add(hh[j], WorkSeq(v)[j]), Mask32)]

\* --------------------------------------------------------------- digest
HexChars == <<"0", "1", "2", "3", "4", "5", "6", "7",
              "8", "9", "a", "b", "c", "d", "e", "f">>

\* hex digit j (0 = least significant) of x >= 0
Nibble(x, j) ==
    BitAt(x, 4*j) + 2 * BitAt(x, 4*j + 1) + 4 * BitAt(x, 4*j + 2) + 8 * BitAt(x, 4*j + 3)

\* the hex digits of x >= 0 from digit j upwards, most significant first:
\* at least up to digit width - 1, and as far as x has bits (left counts the
\* members of x.bits at or above position 4 * j)
RECURSIVE HexFrom(_, _, _, _)
HexFrom(x, j, width, left) ==
    IF left = 0 /\ j >= width THEN ""
    ELSE HexFrom(x, j + 1, width,
                 left - Cardinality(x.bits \cap (4*j)..(4*j + 3)))
         \o HexChars[Nibble(x, j) + 1]

\* a faulty format, f'{x:x}': no zero padding to 8 digits
FormatNoFill(x) ==
    IF x.neg
    THEN LET m == Add(Not(x), PyInt(1))
         IN  "-" \o HexFrom(m, 0, 1, Cardinality(m.bits))
    ELSE HexFrom(x, 0, 1, Cardinality(x.bits))

\* f'{x:08x}': lowercase hex, zero-padded to a width of at least 8, the sign
\* of a negative number counting in the width
Format08x(x) ==
    IF x.neg
    THEN LET m == Add(Not(x), PyInt(1))
         IN  "-" \o HexFrom(m, 0, 7, Cardinality(m.bits))
    ELSE HexFrom(x, 0, 8, Cardinality(x.bits))

\* ''.join(f'{x:08x}' for x in h)
RECURSIVE JoinHex(_)
JoinHex(hh) ==
    IF hh = <<>> THEN "" ELSE Format08x(Head(hh)) \o JoinHex(Tail(hh))

\* ---------------------------------------------------------------- inputs
Bytes(v) == [str |-> FALSE, val |-> Explicit(v)]
LongBytes(n) == [str |-> FALSE, val |-> Long(n)]
Str(v)   == [str |-> TRUE, val |-> v]

\* b'abc'
Abc == <<97, 98, 99>>

\* b'abcdbcdecdefdefgefghfghighijhijkijkljklmklmnlmnomnopnopq':
\* fourteen groups of four consecutive letters, group g starting at 'a' + g
TwoBlockMsg == [k \in 1..56 |-> 97 + ((k - 1) \div 4) + ((k - 1) % 4)]

\* a 120-byte message, padded to three blocks
ThreeBlockMsg == [k \in 1..120 |-> (k * 7) % 256]

\* the arguments of the calls: the three self-test vectors, a longer message,
\* and two str arguments ('abc' and 'e-acute')
Inputs == {Bytes(<<>>), Bytes(Abc), Bytes(TwoBlockMsg), Bytes(ThreeBlockMsg),
           Str(Abc), Str(<<233>>)}

\* the arguments of the calls of each of two concurrent threads: the first
\* 55 and the first 54 bytes of the two-block message (one block each)
ParInputs == <<{Bytes(SubSeq(TwoBlockMsg, 1, 55)), Bytes(SubSeq(TwoBlockMsg, 1, 54))},
               {Bytes(SubSeq(TwoBlockMsg, 1, 55))}>>

\* the arguments of the padding specification: every length up to MaxPadLen,
\* with bytes that include 0x00, 0x80 and 0xff
PadInputs ==
    {Bytes([k \in 1..n |-> (k + off) % 256]) : n \in 0..MaxPadLen, off \in {0, 127}}

\* 2^61, the least number of bytes whose number of bits is 2^64 or more
TwoTo61 == Shl(PyInt(1), 61)

\* the arguments of the specification of the long inputs: byte strings of
\* 2^61 - LongSpan .. 2^61 + LongSpan bytes (-d is ~(d - 1))
LongInputs ==
    {LongBytes(Add(TwoTo61, PyInt(d))) : d \in 0..LongSpan}
    \cup {LongBytes(Add(TwoTo61, Not(PyInt(d - 1)))) : d \in 1..LongSpan}

\* --------------------------------------------------------- frame of locals
NoInt == -1          \* a loop index that is not bound yet
Unbound == <<>>      \* a sequence or word local that is not bound yet
NoWork == [a |-> Unbound, b |-> Unbound, c |-> Unbound, d |-> Unbound,
           e |-> Unbound, f |-> Unbound, g |-> Unbound, h_val |-> Unbound]

Init ==
    /\ pc = [t \in Threads |-> "idle"]
    /\ K = [t \in Threads |-> Unbound]
    /\ data = [t \in Threads |-> Unbound]
    /\ msg_len = [t \in Threads |-> Unbound]
    /\ msg = [t \in Threads |-> Unbound]
    /\ chunk_start = [t \in Threads |-> NoInt]
    /\ chunk = [t \in Threads |-> Unbound]
    /\ w = [t \in Threads |-> Unbound]
    /\ h = [t \in Threads |-> Unbound]
    /\ wk = [t \in Threads |-> NoWork]
    /\ temp1 = [t \in Threads |-> Unbound]
    /\ temp2 = [t \in Threads |-> Unbound]
    /\ i = [t \in Threads |-> NoInt]
    /\ result = [t \in Threads |-> ""]
    /\ calls = 0
    /\ seen = {}

\* sha256(arg) is called: a new frame, K and h are built, a str is encoded
Call(t, args) ==
    /\ pc[t] \in {"idle", "done"}
    /\ calls < MaxCalls
    /\ \E arg \in args :
         data' = [data EXCEPT ![t] = IF arg.str THEN Explicit(Utf8Encode(arg.val))
                                                ELSE arg.val]
    /\ K' = [K EXCEPT ![t] = RoundConstants]
    /\ h' = [h EXCEPT ![t] = InitialHash]
    /\ msg_len' = [msg_len EXCEPT ![t] = Unbound]
    /\ msg' = [msg EXCEPT ![t] = Unbound]
    /\ chunk_start' = [chunk_start EXCEPT ![t] = NoInt]
    /\ chunk' = [chunk EXCEPT ![t] = Unbound]
    /\ w' = [w EXCEPT ![t] = Unbound]
    /\ wk' = [wk EXCEPT ![t] = NoWork]
    /\ temp1' = [temp1 EXCEPT ![t] = Unbound]
    /\ temp2' = [temp2 EXCEPT ![t] = Unbound]
    /\ i' = [i EXCEPT ![t] = NoInt]
    /\ result' = [result EXCEPT ![t] = ""]
    /\ calls' = calls + 1
    /\ pc' = [pc EXCEPT ![t] = "pad"]
    /\ UNCHANGED seen

\* msg_len = len(data) * 8; msg = bytearray(data); msg.append(0x80)
Pad(t) ==
    /\ pc[t] = "pad"
    /\ msg_len' = [msg_len EXCEPT ![t] = Times8(PyLen(data[t]))]
    /\ msg' = [msg EXCEPT ![t] = AppendByte(data[t], 128)]
    /\ pc' = [pc EXCEPT ![t] = "zeros"]
    /\ UNCHANGED <<K, data, chunk_start, chunk, w, h, wk, temp1, temp2, i, result,
                   calls, seen>>

\* while (len(msg) * 8) % 512 != 448: msg.append(0x00)
\* one test of the condition, and one iteration of the loop when it holds
Zeros(t) ==
    /\ pc[t] = "zeros"
    /\ IF NeedsZero(msg[t])
       THEN /\ msg' = [msg EXCEPT ![t] = AppendByte(msg[t], 0)]
            /\ UNCHANGED pc
       ELSE /\ pc' = [pc EXCEPT ![t] = "length"]
            /\ UNCHANGED msg
    /\ UNCHANGED <<K, data, msg_len, chunk_start, chunk, w, h, wk, temp1, temp2, i,
                   result, calls, seen>>

\* msg.extend(struct.pack('>Q', msg_len)); struct.error when out of range
Length(t) ==
    /\ pc[t] = "length"
    /\ IF FitsQ(msg_len[t])
       THEN /\ msg' = [msg EXCEPT ![t] = [lead |-> msg[t].lead,
                                          bytes |-> msg[t].bytes \o PackQ(msg_len[t])]]
            /\ pc' = [pc EXCEPT ![t] = "chunks"]
       ELSE /\ pc' = [pc EXCEPT ![t] = "error"]
            /\ UNCHANGED msg
    /\ UNCHANGED <<K, data, msg_len, chunk_start, chunk, w, h, wk, temp1, temp2, i,
                   result, calls, seen>>

\* The blocks are modelled for a message that is written out in full (lead
\* = 0): its bytes.  (A message of 2^61 bytes has 2^55 blocks.)
Full(m) == m.bytes

\* a faulty range, range(0, len(msg), 128): every second block is skipped
NextStartBy128(t) == IF chunk_start[t] = NoInt THEN 0 ELSE chunk_start[t] + 128

\* the next value of chunk_start in range(0, len(msg), 64)
NextStart(t) == IF chunk_start[t] = NoInt THEN 0 ELSE chunk_start[t] + 64

\* for chunk_start in range(0, len(msg), 64): chunk = msg[...];
\* w = list(struct.unpack('>16I', chunk)); struct.error unless 64 bytes
NextChunk(t) ==
    /\ pc[t] = "chunks"
    /\ NextStart(t) < Len(Full(msg[t]))
    /\ chunk_start' = [chunk_start EXCEPT ![t] = NextStart(t)]
    /\ LET ch == Slice(Full(msg[t]), NextStart(t), NextStart(t) + 64)
       IN  /\ chunk' = [chunk EXCEPT ![t] = ch]
           /\ IF Len(ch) = 64
              THEN /\ w' = [w EXCEPT ![t] = Unpack16I(ch)]
                   /\ pc' = [pc EXCEPT ![t] = "extend"]
              ELSE /\ pc' = [pc EXCEPT ![t] = "error"]
                   /\ UNCHANGED w
    /\ UNCHANGED <<K, data, msg_len, msg, h, wk, temp1, temp2, i, result, calls, seen>>

\* for i in range(16, 64): w.append(...)
Extend(t) ==
    /\ pc[t] = "extend"
    /\ w' = [w EXCEPT ![t] = ExtendFrom(w[t])]
    /\ pc' = [pc EXCEPT ![t] = "init"]
    /\ UNCHANGED <<K, data, msg_len, msg, chunk_start, chunk, h, wk, temp1, temp2, i,
                   result, calls, seen>>

\* a, b, c, d, e, f, g, h_val = h, and the entry of the loop of the rounds
InitWorking(t) ==
    /\ pc[t] = "init"
    /\ wk' = [wk EXCEPT ![t] = Unpack8(h[t])]
    /\ i' = [i EXCEPT ![t] = 0]
    /\ pc' = [pc EXCEPT ![t] = "rounds"]
    /\ UNCHANGED <<K, data, msg_len, msg, chunk_start, chunk, w, h, temp1, temp2,
                   result, calls, seen>>

\* one iteration of: for i in range(64): ...
Round(t) ==
    /\ pc[t] = "rounds"
    /\ i[t] < 64
    /\ LET t1 == Temp1(wk[t], i[t], w[t], K[t])
           t2 == Temp2(wk[t])
       IN  /\ temp1' = [temp1 EXCEPT ![t] = t1]
           /\ temp2' = [temp2 EXCEPT ![t] = t2]
           /\ wk' = [wk EXCEPT ![t] = RoundStep(wk[t], t1, t2)]
    /\ i' = [i EXCEPT ![t] = i[t] + 1]
    /\ UNCHANGED <<pc, K, data, msg_len, msg, chunk_start, chunk, w, h, result, calls,
                   seen>>

\* a faulty accumulation: h is one list shared by the calls of all threads
AccumulateShared(t) ==
    /\ pc[t] = "rounds"
    /\ i[t] = 64
    /\ h' = [u \in Threads |-> AddCompressed(h[t], wk[t])]
    /\ pc' = [pc EXCEPT ![t] = "chunks"]
    /\ UNCHANGED <<K, data, msg_len, msg, chunk_start, chunk, w, wk, temp1, temp2, i,
                   result, calls, seen>>

\* h[0] = (h[0] + a) & 0xffffffff ... h[7] = (h[7] + h_val) & 0xffffffff
Accumulate(t) ==
    /\ pc[t] = "rounds"
    /\ i[t] = 64
    /\ h' = [h EXCEPT ![t] = AddCompressed(h[t], wk[t])]
    /\ pc' = [pc EXCEPT ![t] = "chunks"]
    /\ UNCHANGED <<K, data, msg_len, msg, chunk_start, chunk, w, wk, temp1, temp2, i,
                   result, calls, seen>>

\* return ''.join(f'{x:08x}' for x in h), once the range is exhausted
Return(t) ==
    /\ pc[t] = "chunks"
    /\ NextStart(t) >= Len(Full(msg[t]))
    /\ result' = [result EXCEPT ![t] = JoinHex(h[t])]
    /\ seen' = seen \cup {<<data[t], JoinHex(h[t])>>}
    /\ pc' = [pc EXCEPT ![t] = "done"]
    /\ UNCHANGED <<K, data, msg_len, msg, chunk_start, chunk, w, h, wk, temp1, temp2,
                   i, calls>>

\* the steps of a call after its entry
Step(t) ==
    \/ Pad(t) \/ Zeros(t) \/ Length(t) \/ NextChunk(t) \/ Extend(t)
    \/ InitWorking(t) \/ Round(t) \/ Accumulate(t) \/ Return(t)

\* one thread calling sha256 again and again
Next == Call(1, Inputs) \/ Step(1)
Spec == Init /\ [][Next]_vars

\* two threads calling sha256 concurrently
NextPar == \E t \in Threads : Call(t, ParInputs[t]) \/ Step(t)
SpecPar == Init /\ [][NextPar]_vars

\* the padding alone, on inputs of every length up to MaxPadLen
NextPad == Call(1, PadInputs) \/ Pad(1) \/ Zeros(1) \/ Length(1)
SpecPad == Init /\ [][NextPad]_vars

\* Calls on long inputs and on two short ones.  The steps of a call on a
\* long input are modelled up to the length field: its blocks, 2^55 of them
\* or more, are not.
Written(t) == data[t].lead = PyInt(0)
StepLong(t) ==
    \/ Pad(t) \/ Zeros(t) \/ Length(t)
    \/ (NextChunk(t) /\ Written(t)) \/ (Extend(t) /\ Written(t))
    \/ (InitWorking(t) /\ Written(t)) \/ (Round(t) /\ Written(t))
    \/ (Accumulate(t) /\ Written(t)) \/ (Return(t) /\ Written(t))
NextLong == Call(1, LongInputs \cup {Bytes(<<>>), Bytes(TwoBlockMsg)}) \/ StepLong(1)
SpecLong == Init /\ [][NextLong]_vars

\* ------------------------------------------------------ the self-test
\* test_vectors: the inputs of the self-test and the digests it expects
TestVectors ==
    << <<<<>>, "e3b0c44298fc1c149afbf4c8996fb92427ae41e4649b934ca495991b7852b855">>,
       <<Abc, "ba7816bf8f01cfea414140de5dae2223b00361a396177a9cb410ff61f20015ad">>,
       <<TwoBlockMsg,
         "248d6a61d20638b8e5c026930c3e6039a33ce45964ff2167f6ecedd419db06c1">> >>

\* =================================================================== C1
\* C1: a call of sha256 on one of the three inputs of the self-test (the
\* empty input, b'abc', the 56-byte message) returns the digest that the
\* self-test expects for it.
C1_KnownAnswers ==
    /\ \A t \in Threads : \A v \in 1..3 :
         (pc[t] = "done" /\ data[t] = Explicit(TestVectors[v][1]))
            => result[t] = TestVectors[v][2]
    /\ \A p \in seen : \A v \in 1..3 :
         p[1] = Explicit(TestVectors[v][1]) => p[2] = TestVectors[v][2]

\* the 56-byte message has just been hashed, after b'abc'
C1_Witness ==
    /\ pc[1] = "done"
    /\ data[1] = Explicit(TwoBlockMsg)
    /\ result[1] = "248d6a61d20638b8e5c026930c3e6039a33ce45964ff2167f6ecedd419db06c1"
    /\ \E p \in seen : p[1] = Explicit(Abc)

\* =================================================================== C2
\* the j-th character (1-based) of the string s
CharAt(s, j) == SubSeq(s, j, j)

\* the value of the n bits of the word x from position lo upwards
RECURSIVE BitsValue(_, _, _)
BitsValue(x, lo, n) ==
    IF n = 0 THEN 0
    ELSE (IF lo \in x.bits THEN 1 ELSE 0) + 2 * BitsValue(x, lo + 1, n - 1)

\* C2 as stated: the value returned by sha256 has length 32.
C2_Length32 ==
    \A t \in Threads : pc[t] = "done" => Len(result[t]) = 32

\* C2, amended: the value returned by sha256 is a string of 64 characters,
\* the eight final hash-state words h[0]..h[7] in this order, each written
\* as 8 lowercase hexadecimal digits, most significant digit first.
C2_HexDigest ==
    \A t \in Threads :
        pc[t] = "done" =>
            /\ Len(result[t]) = 64
            /\ \A j \in 1..8 : \A d \in 1..8 :
                 CharAt(result[t], 8 * (j - 1) + d)
                    = CharAt("0123456789abcdef", BitsValue(h[t][j], 4 * (8 - d), 4) + 1)

\* a digest with a word that begins with the digit 0 (0c3e6039) is returned
C2_Witness ==
    /\ pc[1] = "done"
    /\ data[1] = Explicit(TwoBlockMsg)
    /\ Len(result[1]) = 64
    /\ BitsValue(h[1][4], 28, 4) = 0
    /\ CharAt(result[1], 25) = "0"

\* =================================================================== C3
\* C3: when the padding is complete (block processing is about to begin),
\* the number of bits of the padded message is a positive multiple of 512
\* and is at least L + 65, L the number of bits of the input.
C3_PaddedLength ==
    \A t \in Threads :
        pc[t] = "chunks" =>
            LET L == Len(data[t].bytes) * 8
                padded == Len(msg[t].bytes) * 8
            IN  /\ data[t].lead = PyInt(0) /\ msg[t].lead = PyInt(0)
                /\ padded > 0
                /\ padded % 512 = 0
                /\ padded >= L + 65

\* an input of 120 bytes is padded to 1536 bits
C3_Witness ==
    /\ pc[1] = "chunks"
    /\ Len(data[1].bytes) = 120
    /\ Len(msg[1].bytes) * 8 = 1536

\* =================================================================== C4
\* C4: the padding loop appends between 0 and 63 zero bytes, and the padded
\* message of an input of n bytes has exactly floor((n + 8) / 64) + 1
\* blocks of 64 bytes: one block for n = 55, two for n = 56, 64 and 119;
\* for n = 56 the second block holds only zero bytes and the length field.
C4_MinimalPadding ==
    \A t \in Threads :
        LET n == Len(data[t].bytes)
            m == msg[t].bytes
        IN  /\ pc[t] \in {"zeros", "length"} =>
                 (Len(m) - (n + 1)) \in 0..63
            /\ pc[t] = "chunks" =>
                 /\ (Len(m) - (n + 1) - 8) \in 0..63
                 /\ Len(m) = 64 * (((n + 8) \div 64) + 1)
                 /\ n = 55 => Len(m) = 64
                 /\ n \in {56, 64, 119} => Len(m) = 128
                 /\ n = 56 => \A k \in 65..120 : m[k] = 0

\* an input of 56 bytes is padded to two blocks
C4_Witness ==
    /\ pc[1] = "chunks"
    /\ Len(data[1].bytes) = 56
    /\ Len(msg[1].bytes) = 128
    /\ msg[1].bytes[57] = 128

\* =================================================================== C5
\* C5 as stated: there is no error outcome.
C5_NeverFails ==
    \A t \in Threads : pc[t] # "error"

\* the input of the call of thread t has 2^61 bytes or more
AtLeastTwoTo61(t) ==
    LET n == PyLen(data[t]) IN ~n.neg /\ \E k \in n.bits : k >= 61

\* C5, amended: a call of sha256 on a byte sequence fails exactly when the
\* input has 2^61 bytes or more: then struct.pack('>Q', msg_len) raises
\* struct.error in the length encoding (the number of bits, 2^64 or more,
\* does not fit in the field), no length field is appended, no block is
\* processed and no digest is returned.  A call on a shorter input has no
\* error outcome in any step (padding, length encoding, block unpacking,
\* rounds); the padding loop of every call ends within 63 iterations, and
\* a call that returns returns a digest of 64 characters.
C5_FailsFromTwoTo61 ==
    \A t \in Threads :
        /\ pc[t] = "error" =>
             /\ AtLeastTwoTo61(t)
             /\ chunk_start[t] = NoInt
             /\ ~NeedsZero(msg[t])
             /\ Len(msg[t].bytes) \in 1..64
             /\ result[t] = ""
        /\ pc[t] \in {"chunks", "extend", "init", "rounds", "done"} =>
             /\ ~AtLeastTwoTo61(t)
             /\ msg[t].lead = data[t].lead
        /\ pc[t] \in {"zeros", "length"} =>
             Len(msg[t].bytes) - Len(data[t].bytes) \in 1..64
        /\ pc[t] = "done" => Len(result[t]) = 64

\* the call on an input of exactly 2^61 bytes has failed
C5_Witness ==
    /\ pc[1] = "error"
    /\ data[1] = Long(TwoTo61)
    /\ Len(msg[1].bytes) = 56

\* ================================================================== C10
\* C10: in the padded message of an input of n bytes, the first n bytes are
\* the input, byte n is 0x80, every byte after it up to the last 8 bytes is
\* 0x00, and the last 8 bytes are 8n as a 64-bit big-endian integer.
C10_Layout ==
    \A t \in Threads :
        pc[t] = "chunks" =>
            LET n == Len(data[t].bytes)
                m == msg[t].bytes
                end == Len(m)
            IN  /\ msg[t].lead = PyInt(0)
                /\ end >= n + 9
                /\ SubSeq(m, 1, n) = data[t].bytes
                /\ m[n + 1] = 128
                /\ \A k \in (n + 2)..(end - 8) : m[k] = 0
                /\ \A k \in (end - 7)..(end - 3) : m[k] = 0
                /\ m[end - 2] * 65536 + m[end - 1] * 256 + m[end] = 8 * n

\* the padded message of an input of 130 bytes that begins with 0x80:
\* 8 * 130 = 0x0410
C10_Witness ==
    /\ pc[1] = "chunks"
    /\ Len(data[1].bytes) = 130
    /\ data[1].bytes[1] = 128
    /\ msg[1].bytes[Len(msg[1].bytes) - 1] = 4
    /\ msg[1].bytes[Len(msg[1].bytes)] = 16

\* =================================================================== C9
\* x is unbound, or an integer in 0 .. 2^32 - 1
InRange32(x) == x = Unbound \/ (~x.neg /\ x.bits \subseteq 0..31)

\* C9: every word of the schedule w, every working variable a..h_val, temp1,
\* temp2 and every word of the hash state h is an integer in 0 .. 2^32 - 1.
C9_WordsInRange ==
    \A t \in Threads :
        /\ \A j \in 1..Len(w[t]) : InRange32(w[t][j])
        /\ \A j \in 1..Len(h[t]) : InRange32(h[t][j])
        /\ \A j \in 1..8 : InRange32(WorkSeq(wk[t])[j])
        /\ InRange32(temp1[t]) /\ InRange32(temp2[t])

\* a round whose sum temp1 + temp2 is 2^32 or more and whose ~e is negative
\* has left a in range
C9_Witness ==
    /\ pc[1] = "rounds"
    /\ i[1] > 0
    /\ 32 \in Add(temp1[1], temp2[1]).bits
    /\ Not(wk[1].e).neg
    /\ ~wk[1].a.neg /\ wk[1].a.bits \subseteq 0..31
    /\ Len(w[1]) = 64

\* =================================================================== C7
\* z = (x + y) mod 2^32 for words x, y, z, computed on their 16-bit halves
IsSumMod32(z, x, y) ==
    LET lo == BitsValue(x, 0, 16) + BitsValue(y, 0, 16)
        hi == BitsValue(x, 16, 16) + BitsValue(y, 16, 16) + (lo \div 65536)
    IN  /\ ~z.neg /\ z.bits \subseteq 0..31
        /\ BitsValue(z, 0, 16) = lo % 65536
        /\ BitsValue(z, 16, 16) = hi % 65536

\* a step of the call of thread t that belongs to the processing of a block
\* before its accumulation: the schedule, the copy to a..h_val, the rounds
InBlock(t) == pc[t] \in {"extend", "init"} \/ (pc[t] = "rounds" /\ i[t] < 64)

C7_Step ==
    \A t \in Threads :
        /\ InBlock(t) => h'[t] = h[t]
        /\ (pc[t] = "rounds" /\ i[t] < 64) =>
             /\ pc'[t] = "rounds" /\ i'[t] = i[t] + 1
             /\ w'[t] = w[t] /\ K'[t] = K[t] /\ msg'[t] = msg[t]
        /\ h'[t] # h[t] =>
             \/ pc[t] \in {"idle", "done"} /\ pc'[t] = "pad"
             \/ /\ pc[t] = "rounds" /\ i[t] = 64 /\ pc'[t] = "chunks"
                /\ wk'[t] = wk[t]
                /\ \A j \in 1..8 :
                     IsSumMod32(h'[t][j], h[t][j], WorkSeq(wk[t])[j])

\* C7: from the entry of a block to the end of its 64 rounds the hash state
\* h is unchanged (the rounds change a..h_val, temp1, temp2); within a call h
\* changes only in the accumulation after round 64, which sets each h[j] to
\* (h[j] + the j-th working variable) mod 2^32, h[j] being the value from
\* before the rounds of this block.
C7_HashFrame == [][C7_Step]_vars

\* the second block of the 56-byte message has been accumulated: the working
\* variables are those of the end of round 64, h is no longer their source
C7_Witness ==
    /\ pc[1] = "chunks"
    /\ data[1] = Explicit(TwoBlockMsg)
    /\ chunk_start[1] = 64
    /\ i[1] = 64
    /\ h[1] # WorkSeq(wk[1])
    /\ \A j \in 1..8 : ~h[1][j].neg /\ h[1][j].bits \subseteq 0..31

\* =================================================================== C8
C8_Step ==
    \A t \in Threads :
        LET m == msg[t].bytes
        IN
        \* a block is taken: the first one at 0, the next one 64 further
        /\ chunk_start'[t] # chunk_start[t] =>
             \/ pc[t] \in {"idle", "done"} /\ pc'[t] = "pad" /\ chunk_start'[t] = NoInt
             \/ /\ pc[t] = "chunks" /\ pc'[t] = "extend"
                /\ chunk_start'[t] = IF chunk_start[t] = NoInt THEN 0
                                                                 ELSE chunk_start[t] + 64
                /\ chunk_start'[t] + 64 <= Len(m)
                /\ chunk'[t] = SubSeq(m, chunk_start'[t] + 1, chunk_start'[t] + 64)
                /\ msg'[t] = msg[t] /\ h'[t] = h[t]
        \* the working variables of a block start from the hash state
        /\ (pc[t] = "init" /\ pc'[t] = "rounds") =>
             h'[t] = h[t] /\ WorkSeq(wk'[t]) = h[t]
        \* the digest is produced once the last block is accumulated
        /\ (pc[t] # "done" /\ pc'[t] = "done") =>
             /\ pc[t] = "chunks"
             /\ chunk_start[t] # NoInt
             /\ chunk_start[t] + 64 = Len(m)
             /\ i[t] = 64
             /\ h'[t] = h[t] /\ chunk_start'[t] = chunk_start[t]
        \* a finished call takes no block and leaves its hash state alone
        /\ pc[t] = "done" =>
             \/ pc'[t] = "pad"
             \/ pc'[t] = "done" /\ h'[t] = h[t] /\ chunk_start'[t] = chunk_start[t]
                /\ result'[t] = result[t]

\* C8: within a call the blocks of the padded message are taken in ascending
\* order, each once (at 0, 64, 128, ... up to the last one), each block
\* starting from the hash state left by the accumulation of the block
\* before it; the digest is returned only after the last block, and after
\* that the call takes no block and its state is not changed.
C8_BlockOrder == [][C8_Step]_vars

\* the call on the 120-byte message has returned after its third block
C8_Witness ==
    /\ pc[1] = "done"
    /\ data[1] = Explicit(ThreeBlockMsg)
    /\ Len(msg[1].bytes) = 192
    /\ chunk_start[1] = 128
    /\ Len(result[1]) = 64

\* =================================================================== C6
\* the locals of the call of thread t
Frame(t) == <<pc[t], K[t], data[t], msg_len[t], msg[t], chunk_start[t], chunk[t],
              w[t], h[t], wk[t], temp1[t], temp2[t], i[t], result[t]>>

C6_State ==
    /\ \A p \in seen : \A q \in seen : p[1] = q[1] => p[2] = q[2]
    /\ \A t \in Threads :
         pc[t] = "pad" => h[t] = InitialHash /\ K[t] = RoundConstants
    /\ \A t \in Threads : \A u \in Threads :
         (pc[t] = "done" /\ pc[u] = "done" /\ data[t] = data[u])
            => result[t] = result[u]

C6_Step ==
    \A t \in Threads : \A u \in Threads :
        (t # u /\ Frame(t)' # Frame(t)) => Frame(u)' = Frame(u)

\* C6: two calls of sha256 on the same bytes return the same digest,
\* whatever calls ran before or are interleaved with them; every call
\* starts from the same initial hash state and the same round constants;
\* a step of one call changes no local of another call.
C6_Determinism == []C6_State /\ [][C6_Step]_vars

\* two threads have each hashed the same 55 bytes, with the same digest
C6_Witness ==
    /\ pc[1] = "done" /\ pc[2] = "done"
    /\ Len(data[1].bytes) = 55
    /\ data[1] = data[2]
    /\ result[1] = result[2]
    /\ Len(result[1]) = 64
    /\ Cardinality(seen) = 1

====
